---- MODULE Spec2Model ----
(***************************************************************************)
(* Speculative bundle execution of zquancai/Sonic:                         *)
(*   ethapi.BundleAPI.CallBundle   (src/unnamed/part_000)                  *)
(*   filters.PublicFilterAPI.simulateTx (src/gossip/filters/simulate.go)   *)
(* Go nil is the empty tuple <<>>; a non-nil pointer/interface value v is  *)
(* the one-element tuple <<v>>.  Go strings are tuples of one-character    *)
(* strings.                                                                *)
(***************************************************************************)
EXTENDS Integers, Sequences, FiniteSets, TLC

VARIABLES
    blocks,     \* the chain: blocks[n+1] is the header of block n
    heap,       \* state objects: persistent block states and per-call state views
    pools,      \* core.GasPool objects, by address
    args,       \* args[c]: the CallBundleArgs of call c
    pc,         \* pc[c]: the position of call c in CallBundle
    ctx,        \* ctx[c]: the context of call c (deadline, ctx.Err())
    loc,        \* loc[c]: the local variables of CallBundle in call c
    ret,        \* ret[c]: the values CallBundle returned
    engine      \* engine[c]: the engine's log of call c: the indices of the transactions
                \* handed to GetEVM (started) and to ApplyTransactionWithResult
                \* (applied), the state and the gas pool each application was
                \* handed (pre, prePool), and for each one that executed its in-VM
                \* error (vmErrs) and the state and gas pool it left (post, postPool)

vars == <<blocks, heap, pools, args, pc, ctx, loc, ret, engine>>

-----------------------------------------------------------------------------
(* Bounds of the model *)

\* longest bundle of a request
MaxTxs == 2
\* highest block the live chain path produces
MaxHead == 1
\* width of the machine words (uint64 / int64 of the program, scaled)
WordBits == 4
\* width of a time.Duration (an int64 of the program, scaled)
DurationBits == 24

-----------------------------------------------------------------------------
(* Go values *)

Nil == <<>>
Some(v) == <<v>>
IsNil(p) == p = <<>>
Val(p) == p[1]

\* math.MaxUint64, at the model's word width
MaxUint64 == 2^WordBits - 1
\* uint64 arithmetic wraps
Uint64(x) == x % (MaxUint64 + 1)
\* int64(x) of a uint64 x
Int64(x) == IF x >= 2^(WordBits - 1) THEN x - 2^WordBits ELSE x

Min(a, b) == IF a < b THEN a ELSE b

\* time.Duration arithmetic: a signed integer of DurationBits bits, wrapping
Duration(x) ==
    LET m == x % 2^DurationBits
    IN  IF m >= 2^(DurationBits - 1) THEN m - 2^DurationBits ELSE m

\* big.Int.Div: Euclidean division, defined for a non-zero divisor
BigDiv(m, n) == IF n > 0 THEN m \div n ELSE -(m \div (-n))

DigitChars == <<"0", "1", "2", "3", "4", "5", "6", "7", "8", "9">>

RECURSIVE Digits(_)
Digits(n) ==
    IF n < 10 THEN <<DigitChars[n + 1]>>
    ELSE Digits(n \div 10) \o <<DigitChars[(n % 10) + 1]>>

\* big.Int.String(): the decimal representation
BigString(n) == IF n < 0 THEN <<"-">> \o Digits(-n) ELSE Digits(n)

HexChars == <<"0", "1", "2", "3", "4", "5", "6", "7",
              "8", "9", "a", "b", "c", "d", "e", "f">>

\* hex.Encode of a byte sequence
RECURSIVE HexEncode(_)
HexEncode(bs) ==
    IF bs = <<>> THEN <<>>
    ELSE <<HexChars[(bs[1] \div 16) + 1], HexChars[(bs[1] % 16) + 1]>>
            \o HexEncode(Tail(bs))

Rep(ch, n) == [k \in 1..n |-> ch]

-----------------------------------------------------------------------------
(* common.HexToAddress *)

AddressLength == 20

\* the value of a hex digit, 16 for any other character
HexVal(ch) ==
    IF \E k \in 1..16 : HexChars[k] = ch
    THEN (CHOOSE k \in 1..16 : HexChars[k] = ch) - 1
    ELSE IF ch = "A" THEN 10 ELSE IF ch = "B" THEN 11 ELSE IF ch = "C" THEN 12
    ELSE IF ch = "D" THEN 13 ELSE IF ch = "E" THEN 14 ELSE IF ch = "F" THEN 15
    ELSE 16

has0xPrefix(s) == Len(s) >= 2 /\ s[1] = "0" /\ (s[2] = "x" \/ s[2] = "X")

\* hex.DecodeString with its error dropped (common.Hex2Bytes): the bytes decoded
\* before the first character that is no hex digit
RECURSIVE Hex2Bytes(_)
Hex2Bytes(s) ==
    IF Len(s) < 2 THEN <<>>
    ELSE IF HexVal(s[1]) > 15 \/ HexVal(s[2]) > 15 THEN <<>>
    ELSE <<HexVal(s[1]) * 16 + HexVal(s[2])>> \o Hex2Bytes(SubSeq(s, 3, Len(s)))

FromHex(s) ==
    LET t == IF has0xPrefix(s) THEN SubSeq(s, 3, Len(s)) ELSE s
        u == IF Len(t) % 2 = 1 THEN <<"0">> \o t ELSE t
    IN  Hex2Bytes(u)

\* common.BytesToAddress: the last AddressLength bytes, left-padded with zeros
BytesToAddress(b) ==
    LET cut == IF Len(b) > AddressLength
               THEN SubSeq(b, Len(b) - AddressLength + 1, Len(b)) ELSE b
    IN  Rep(0, AddressLength - Len(cut)) \o cut

HexToAddress(s) == BytesToAddress(FromHex(s))

\* common.IsHexAddress: a well-formed address string
IsHexAddress(s) ==
    LET t == IF has0xPrefix(s) THEN SubSeq(s, 3, Len(s)) ELSE s
    IN  Len(t) = 2 * AddressLength /\ \A k \in 1..Len(t) : HexVal(t[k]) <= 15

\* the address whose last byte is b
Addr(b) == Rep(0, AddressLength - 1) \o <<b>>

-----------------------------------------------------------------------------
(* Transactions: what tx.UnmarshalBinary yields for each encoding of a request,
   and the ways the execution engine can treat the transaction.
     hash       tx.Hash(), as bytes
     gas        tx.Gas(), the declared gas limit
     gasTipCap, gasFeeCap   the fee fields EffectiveGasTip reads
     runs       the outcomes of applying it:
                  msgerr    core.TransactionToMessage fails
                  evmerr    Backend.GetEVM fails
                  applyerr  evmcore.ApplyTransactionWithResult fails
                  ok / reverted / outofgas   a receipt and an execution result
                with the gas it uses, the value it sends to the coinbase beyond
                the fee, its return data and the events it emits
   tg declares the largest gas limit a transaction can (a uint64) and uses little. *)

Run(kind, gasUsed, bribe, data) ==
    [kind |-> kind, gasUsed |-> gasUsed, bribe |-> bribe, data |-> data,
     logs |-> IF bribe > 0 THEN <<"Transfer">> ELSE <<>>]

Transactions ==
    [ ta |-> [hash |-> <<0, 1>>, gas |-> 2, gasTipCap |-> 1, gasFeeCap |-> 3,
              runs |-> {Run("ok", 2, 0, <<>>)}],
      tb |-> [hash |-> <<1, 0>>, gas |-> 2, gasTipCap |-> 1, gasFeeCap |-> 1,
              runs |-> {Run("reverted", 1, 0, <<8>>),
                        Run("outofgas", 2, 0, <<>>),
                        Run("ok", 1, 1, <<171>>)}],
      tz |-> [hash |-> <<1, 1>>, gas |-> 1, gasTipCap |-> 0, gasFeeCap |-> 3,
              runs |-> {Run("ok", 0, 0, <<>>)}],
      te |-> [hash |-> <<0, 0>>, gas |-> 1, gasTipCap |-> 1, gasFeeCap |-> 3,
              runs |-> {Run("msgerr", 0, 0, <<>>),
                        Run("evmerr", 0, 0, <<>>),
                        Run("applyerr", 0, 0, <<>>)}],
      tg |-> [hash |-> <<2, 2>>, gas |-> MaxUint64, gasTipCap |-> 1, gasFeeCap |-> 3,
              runs |-> {Run("ok", 1, 0, <<>>)}] ]

\* the encodings a request can carry; "bad" decodes to no transaction
Encodings == {"ta", "tb", "tz", "te", "bad"}

\* tx.UnmarshalBinary(encodedTx): the transaction, or nil with an error
UnmarshalBinary(enc) ==
    IF enc \in DOMAIN Transactions THEN Some(Transactions[enc]) ELSE Nil

\* tx.Hash().String()
HashString(h) == <<"0", "x">> \o HexEncode(h)

\* an error value: what it says and the transaction hash it is annotated with
Error(kind) == [kind |-> kind, txhash |-> Nil]
\* fmt.Errorf("err: %w; txhash %s", err, tx.Hash())
WrapTxHash(err, tx) == [kind |-> err.kind, txhash |-> Some(HashString(tx.hash))]

-----------------------------------------------------------------------------
(* Chain configuration and the fee market (go-ethereum) *)

\* the block at which the London rules (fee market) start, in ChainConfig
LondonBlock == 2

\* ChainConfig.IsLondon(num)
IsLondon(num) == LondonBlock <= num

\* eip1559.CalcBaseFee(config, parent): a function of the parent header
CalcBaseFee(parent) ==
    IF IsNil(parent.BaseFee) THEN 1 ELSE Val(parent.BaseFee)

\* tx.EffectiveGasTip(baseFee): the tip, and ErrGasFeeCapTooLow when the fee cap
\* is below the base fee
EffectiveGasTip(tx, baseFee) ==
    IF IsNil(baseFee) THEN [tip |-> tx.gasTipCap, err |-> Nil]
    ELSE [tip |-> Min(tx.gasTipCap, tx.gasFeeCap - Val(baseFee)),
          err |-> IF tx.gasFeeCap < Val(baseFee)
                  THEN Some(Error("max fee per gas less than block base fee"))
                  ELSE Nil]

-----------------------------------------------------------------------------
(* The chain and its persistent states *)

GenesisHeader ==
    [Number |-> 0, Hash |-> <<160>>, Time |-> 10, Coinbase |-> Addr(1),
     GasLimit |-> 8, BaseFee |-> Nil]

\* the header the live chain path seals on top of h
NextHeader(h) ==
    [Number |-> h.Number + 1, Hash |-> <<160 + h.Number + 1>>, Time |-> h.Time + 1,
     Coinbase |-> h.Coinbase, GasLimit |-> h.GasLimit,
     BaseFee |-> IF IsLondon(h.Number + 1) THEN Some(CalcBaseFee(h)) ELSE Nil]

\* the coinbase strings a request can carry
GoodCoinbase == <<"0", "x">> \o Rep("0", 2 * AddressLength - 1) \o <<"2">>
BadCoinbaseA == <<"z", "z">>
BadCoinbaseB == <<"0", "x", "0", "1", "z", "z">>

\* the accounts whose balance the model tracks
Accounts == {Addr(0), Addr(1), Addr(2)}

\* a state object: the balances and the transaction context SetTxContext tags it with
GenesisState ==
    [balance |-> [a \in Accounts |-> IF a = Addr(1) THEN 5 ELSE 0],
     thash |-> Nil, txIndex |-> 0]

\* StateDB.GetBalance
GetBalance(st, a) == IF a \in DOMAIN st.balance THEN st.balance[a] ELSE 0

\* StateDB.AddBalance
AddBalance(st, a, v) ==
    [st EXCEPT !.balance =
        [x \in DOMAIN st.balance |-> IF x = a THEN st.balance[x] + v ELSE st.balance[x]]]

\* StateDB.SetTxContext
SetTxContext_ZeroIndex(st, thash, ti) == [st EXCEPT !.thash = Some(thash), !.txIndex = 0]

SetTxContext(st, thash, ti) == [st EXCEPT !.thash = Some(thash), !.txIndex = ti]

\* names of state objects
BlockState(n) == <<"block", n>>
HeadNumber == Len(blocks) - 1
CurrentBlock == blocks[Len(blocks)]


-----------------------------------------------------------------------------
(* Backend.StateAndHeaderByNumberOrHash *)

\* a state reference of a request: by number, or the latest block
ByNumber(n) == [tag |-> "number", n |-> n]
Latest == [tag |-> "latest", n |-> 0]

\* the header a reference resolves to, nil when the block is unknown
ResolveHeader(ref) ==
    IF ref.tag = "latest" THEN Some(CurrentBlock)
    ELSE IF ref.n <= HeadNumber THEN Some(blocks[ref.n + 1])
    ELSE Nil

\* the state object a call is handed for the block n: a view of its own
StateAt(c, n) == <<"view", c>>

\* what the backend can answer call c: (state, header, nil) with a fresh state view
\* holding a copy of the block's state, or no state view, with an error or without
StateAndHeaderByNumberOrHash(c, ref) ==
    LET h == ResolveHeader(ref)
        failed(e) == [state |-> Nil, parent |-> Nil, err |-> e]
    IN  IF IsNil(h)
        THEN {failed(Some(Error("header not found"))), failed(Nil)}
        ELSE {[state |-> Some(StateAt(c, Val(h).Number)), parent |-> h, err |-> Nil]}
                \cup (IF IsNil(ctx[c].err) THEN {} ELSE {failed(ctx[c].err)})

-----------------------------------------------------------------------------
(* The execution engine: GetEVM and evmcore.ApplyTransactionWithResult *)

\* GetEVM (part_000:238-247): message construction, then Backend.GetEVM;
\* the error of the first that fails under run r, nil when both succeed
GetEVM(tx, r) ==
    IF r.kind = "msgerr" THEN Some(Error("invalid transaction: cannot build message"))
    ELSE IF r.kind = "evmerr" THEN Some(Error("cannot set up EVM"))
    ELSE Nil

\* the fee the engine credits to the coinbase: gas used times the effective tip
EngineFee(tx, header, gasUsed) ==
    LET tip == EffectiveGasTip(tx, header.BaseFee).tip
    IN  IF tip > 0 THEN gasUsed * tip ELSE 0

\* evmcore.ApplyTransactionWithResult under run r, with the gas pool at poolv and
\* the state st: an error (the run fails, or the pool holds less than the declared
\* gas limit), or the receipt and execution result, the pool less the gas used, the
\* state with the coinbase credited, and the header's cumulative gas used
ApplyTransactionWithResult(tx, r, poolv, st, header) ==
    IF r.kind = "applyerr"
    THEN [err |-> Some(Error("nonce too low")), receipt |-> Nil, result |-> Nil,
          pool |-> poolv, state |-> st, usedGas |-> header.GasUsed]
    ELSE IF poolv < tx.gas
    THEN [err |-> Some(Error("gas limit reached")), receipt |-> Nil, result |-> Nil,
          pool |-> poolv, state |-> st, usedGas |-> header.GasUsed]
    ELSE [err |-> Nil,
          receipt |-> Some([GasUsed |-> r.gasUsed, Logs |-> r.logs]),
          result |-> Some([Err |-> IF r.kind = "ok" THEN Nil ELSE Some(r.kind),
                           ReturnData |-> r.data]),
          pool |-> poolv - r.gasUsed,
          state |-> AddBalance(st, header.Coinbase,
                               EngineFee(tx, header, r.gasUsed) + r.bribe),
          usedGas |-> Uint64(header.GasUsed + r.gasUsed)]

\* ExecutionResult.Revert(): the return data of a reverted execution
Revert(result) == IF result.Err = Some("reverted") THEN result.ReturnData ELSE <<>>

\* ExecutionResult.Return(): the return data of a successful execution
Return(result) == IF IsNil(result.Err) THEN result.ReturnData ELSE <<>>


-----------------------------------------------------------------------------
(* BundleAPI.processTransactionResult and BundleAPI.prepareFinalResult.
   big.Int.Div panics on a zero divisor: panic is TRUE and nothing is returned.
   The fromAddress / toAddress fields (signature recovery) are left out. *)

\* lines 191-200: error and revert for a failed execution, value for a successful one
OutcomeFields_ValueAlways(result) ==
    [error |-> IF IsNil(result.Err) THEN Nil ELSE result.Err,
     revert |-> IF ~IsNil(result.Err) /\ Len(Revert(result)) > 0
                THEN Some(Revert(result)) ELSE Nil,
     value |-> Some(<<"0", "x">> \o HexEncode(Return(result)))]

OutcomeFields(result) ==
    [error |-> IF IsNil(result.Err) THEN Nil ELSE result.Err,
     revert |-> IF ~IsNil(result.Err) /\ Len(Revert(result)) > 0
                THEN Some(Revert(result)) ELSE Nil,
     value |-> IF IsNil(result.Err)
               THEN Some(<<"0", "x">> \o HexEncode(Return(result))) ELSE Nil]

\* lines 165, 204: the gas fee of a transaction
GasFeesTx(receipt, gasPrice) == Int64(receipt.GasUsed) * gasPrice

\* lines 208, 225: what the coinbase gained beyond the gas fees
EthSentToCoinbase_NoFees(coinbaseDiff, gasFees) == coinbaseDiff

EthSentToCoinbase(coinbaseDiff, gasFees) == coinbaseDiff - gasFees

processTransactionResult(tx, receipt, result, header, coinbaseBalanceBeforeTx, st) ==
    LET outcome == OutcomeFields(result)
        coinbaseDiffTx == GetBalance(st, header.Coinbase) - coinbaseBalanceBeforeTx
        gasPrice == EffectiveGasTip(tx, header.BaseFee).tip
        gasFeesTx == GasFeesTx(receipt, gasPrice)
        divisor == Int64(receipt.GasUsed)
    IN  [panic |-> divisor = 0,
         json |->
            [txHash |-> HashString(tx.hash),
             gasUsed |-> receipt.GasUsed,
             error |-> outcome.error,
             revert |-> outcome.revert,
             value |-> outcome.value,
             coinbaseDiff |-> BigString(coinbaseDiffTx),
             gasFees |-> BigString(gasFeesTx),
             ethSentToCoinbase |-> BigString(EthSentToCoinbase(coinbaseDiffTx, gasFeesTx)),
             gasPrice |-> IF divisor = 0 THEN Nil
                          ELSE Some(BigString(BigDiv(coinbaseDiffTx, divisor)))]]

\* sha3.NewLegacyKeccak256: the digest under construction is the stream written so far
NewLegacyKeccak256 == <<>>
\* hash.Hash.Write
HashWrite(h, bytes) == h \o bytes
\* hash.Hash.Sum(nil): Keccak-256 as an ideal (collision-free) digest of the stream
HashSum(h) == h

prepareFinalResult(results, st, coinbaseBalanceBefore, coinbase, gasFees, totalGasUsed, parent, bundleHash) ==
    LET coinbaseDiff == GetBalance(st, coinbase) - coinbaseBalanceBefore
        divisor == Int64(totalGasUsed)
    IN  [panic |-> divisor = 0,
         ret |->
            [results |-> results,
             stateBlockNumber |-> parent.Number,
             totalGasUsed |-> totalGasUsed,
             coinbaseDiff |-> BigString(coinbaseDiff),
             gasFees |-> BigString(gasFees),
             ethSentToCoinbase |-> BigString(EthSentToCoinbase(coinbaseDiff, gasFees)),
             bundleGasPrice |-> IF divisor = 0 THEN Nil
                                ELSE Some(BigString(BigDiv(coinbaseDiff, divisor))),
             bundleHash |-> <<"0", "x">> \o HexEncode(HashSum(bundleHash))]]

-----------------------------------------------------------------------------
(* BundleAPI.CallBundle, step by step *)

Returned(c, res, err) ==
    /\ ret' = [ret EXCEPT ![c] = [result |-> res, err |-> err]]
    /\ pc' = [pc EXCEPT ![c] = "returned"]

Goto(c, label) ==
    /\ pc' = [pc EXCEPT ![c] = label]
    /\ UNCHANGED ret

Panic(c) == Goto(c, "panicked")

Running(c) == pc[c] \notin {"returned", "panicked"}

\* lines 56-61: the request checks; the error of the first that fails, else nil
ValidateArgs(a) ==
    IF Len(a.Txs) = 0 THEN Some(Error("bundle missing txs"))
    ELSE IF a.BlockNumber = 0 THEN Some(Error("bundle missing blockNumber"))
    ELSE Nil

CallBundle_Validate(c) ==
    /\ pc[c] = "validate"
    /\ IF IsNil(ValidateArgs(args[c]))
       THEN Goto(c, "decode")
       ELSE Returned(c, Nil, ValidateArgs(args[c]))
    /\ UNCHANGED <<blocks, heap, pools, args, ctx, loc, engine>>

\* lines 63-70: decode every transaction, stopping at the first that fails
RECURSIVE DecodeTxs(_)
DecodeTxs(encs) ==
    IF encs = <<>> THEN [txs |-> <<>>, err |-> Nil]
    ELSE IF IsNil(UnmarshalBinary(encs[1]))
    THEN [txs |-> <<>>, err |-> Some(Error("transaction decoding failed"))]
    ELSE LET rest == DecodeTxs(Tail(encs))
         IN  [txs |-> <<Val(UnmarshalBinary(encs[1]))>> \o rest.txs, err |-> rest.err]

CallBundle_Decode(c) ==
    /\ pc[c] = "decode"
    /\ LET d == DecodeTxs(args[c].Txs)
       IN  IF IsNil(d.err)
           THEN /\ loc' = [loc EXCEPT ![c].txs = d.txs]
                /\ Goto(c, "context")
           ELSE /\ Returned(c, Nil, d.err)
                /\ UNCHANGED loc
    /\ UNCHANGED <<blocks, heap, pools, args, ctx, engine>>

\* line 76
DefaultTimeoutMs == 5000

\* time.Millisecond, with durations counted in microseconds
Millisecond == 1000

\* lines 76-88: the deadline of the call's context (how long after the call
\* started it fires), nil for none
Deadline(a) ==
    LET timeoutMilliSeconds == IF IsNil(a.Timeout) THEN DefaultTimeoutMs ELSE Val(a.Timeout)
        timeout == Duration(Millisecond * timeoutMilliSeconds)
    IN  IF timeout > 0 THEN Some(timeout) ELSE Nil

CallBundle_Context(c) ==
    /\ pc[c] = "context"
    /\ ctx' = [ctx EXCEPT ![c].deadline = Deadline(args[c])]
    /\ Goto(c, "acquire")
    /\ UNCHANGED <<blocks, heap, pools, args, loc, engine>>

\* line 91: the guard on what the backend answered
NoState(o) == IsNil(o.state) \/ ~IsNil(o.err)

\* lines 90-93
CallBundle_Acquire(c) ==
    /\ pc[c] = "acquire"
    /\ \E o \in StateAndHeaderByNumberOrHash(c, args[c].StateBlockNumberOrHash) :
          IF NoState(o)
          THEN /\ Returned(c, Nil, o.err)
               /\ UNCHANGED <<heap, loc>>
          ELSE /\ heap' = (Val(o.state) :> heap[BlockState(Val(o.parent).Number)]) @@ heap
               /\ loc' = [loc EXCEPT ![c].state = o.state, ![c].parent = o.parent]
               /\ Goto(c, "header")
    /\ UNCHANGED <<blocks, pools, args, ctx, engine>>

\* lines 95-127: the synthetic header
SyntheticHeader_NextNumber(a, parent) ==
    LET blockNumber == parent.Number + 1
    IN  [ParentHash |-> parent.Hash,
         Number |-> blockNumber,
         GasLimit |-> IF IsNil(a.GasLimit) THEN parent.GasLimit ELSE Val(a.GasLimit),
         Time |-> IF IsNil(a.Timestamp) THEN Uint64(parent.Time + 1) ELSE Val(a.Timestamp),
         Coinbase |-> IF IsNil(a.Coinbase) THEN parent.Coinbase
                      ELSE HexToAddress(Val(a.Coinbase)),
         BaseFee |-> IF ~IsNil(a.BaseFee) THEN a.BaseFee
                     ELSE IF IsLondon(blockNumber) THEN Some(CalcBaseFee(parent))
                     ELSE Nil,
         GasUsed |-> 0]

SyntheticHeader(a, parent) ==
    LET blockNumber == a.BlockNumber
    IN  [ParentHash |-> parent.Hash,
         Number |-> blockNumber,
         GasLimit |-> IF IsNil(a.GasLimit) THEN parent.GasLimit ELSE Val(a.GasLimit),
         Time |-> IF IsNil(a.Timestamp) THEN Uint64(parent.Time + 1) ELSE Val(a.Timestamp),
         Coinbase |-> IF IsNil(a.Coinbase) THEN parent.Coinbase
                      ELSE HexToAddress(Val(a.Coinbase)),
         BaseFee |-> IF ~IsNil(a.BaseFee) THEN a.BaseFee
                     ELSE IF IsLondon(blockNumber) THEN Some(CalcBaseFee(parent))
                     ELSE Nil,
         GasUsed |-> 0]

\* line 129: new(core.GasPool), an object of the call's own
NewGasPool_Shared(c) == <<"gp", 0>>

NewGasPool(c) == <<"gp", c>>

\* lines 95-137
CallBundle_Header(c) ==
    /\ pc[c] = "header"
    /\ LET header == SyntheticHeader(args[c], Val(loc[c].parent))
           gp == NewGasPool(c)
       IN  /\ pools' = (gp :> MaxUint64) @@ pools
           /\ loc' = [loc EXCEPT
                        ![c].header = Some(header),
                        ![c].coinbase = Some(header.Coinbase),
                        ![c].gp = Some(gp),
                        ![c].results = <<>>,
                        ![c].coinbaseBalanceBefore =
                            GetBalance(heap[Val(loc[c].state)], header.Coinbase),
                        ![c].bundleHash = NewLegacyKeccak256,
                        ![c].totalGasUsed = 0,
                        ![c].gasFees = 0,
                        ![c].i = 0]
    /\ Goto(c, "check")
    /\ UNCHANGED <<blocks, heap, args, ctx, engine>>

\* line 140: ctx.Err()
CtxErr_Unchecked(c) == Nil

CtxErr(c) == ctx[c].err

\* lines 139-142: the loop head; the next transaction, the cancellation check
CallBundle_Check(c) ==
    /\ pc[c] = "check"
    /\ IF loc[c].i = Len(loc[c].txs)
       THEN Goto(c, "finish")
       ELSE IF ~IsNil(CtxErr(c))
       THEN Returned(c, Nil, CtxErr(c))
       ELSE Goto(c, "begin")
    /\ UNCHANGED <<blocks, heap, pools, args, ctx, loc, engine>>

CurrentTx(c) == loc[c].txs[loc[c].i + 1]

\* line 148-150: the error CallBundle returns when GetEVM fails
GetEVMFailure(err, tx) == err

\* lines 144-150
CallBundle_Begin(c) ==
    /\ pc[c] = "begin"
    /\ LET tx == CurrentTx(c)
           sid == Val(loc[c].state)
       IN  /\ loc' = [loc EXCEPT ![c].coinbaseBalanceBeforeTx =
                                    GetBalance(heap[sid], Val(loc[c].coinbase))]
           /\ heap' = [heap EXCEPT ![sid] = SetTxContext(heap[sid], tx.hash, loc[c].i)]
           /\ engine' = [engine EXCEPT ![c].started = Append(@, loc[c].i)]
           /\ \E r \in tx.runs :
                 IF IsNil(GetEVM(tx, r))
                 THEN Goto(c, "apply")
                 ELSE Returned(c, Nil, Some(GetEVMFailure(Val(GetEVM(tx, r)), tx)))
    /\ UNCHANGED <<blocks, pools, args, ctx>>

\* line 153: the error CallBundle returns when the engine invocation fails
ApplyFailure(err, tx) == WrapTxHash(err, tx)

\* lines 151-154
CallBundle_Apply(c) ==
    /\ pc[c] = "apply"
    /\ LET tx == CurrentTx(c)
           sid == Val(loc[c].state)
           gp == Val(loc[c].gp)
           header == Val(loc[c].header)
       IN  \E r \in {x \in tx.runs : IsNil(GetEVM(tx, x))} :
                 LET a == ApplyTransactionWithResult(tx, r, pools[gp], heap[sid], header)
                 IN  IF ~IsNil(a.err)
                     THEN /\ Returned(c, Nil, Some(ApplyFailure(Val(a.err), tx)))
                          /\ engine' = [engine EXCEPT
                                          ![c].applied = Append(@, loc[c].i),
                                          ![c].pre = Append(@, heap[sid]),
                                          ![c].prePool = Append(@, pools[gp])]
                          /\ UNCHANGED <<heap, pools, loc>>
                     ELSE /\ engine' = [engine EXCEPT
                                          ![c].applied = Append(@, loc[c].i),
                                          ![c].pre = Append(@, heap[sid]),
                                          ![c].prePool = Append(@, pools[gp]),
                                          ![c].vmErrs = Append(@, Val(a.result).Err),
                                          ![c].post = Append(@, a.state),
                                          ![c].postPool = Append(@, a.pool)]
                          /\ heap' = [heap EXCEPT ![sid] = a.state]
                          /\ pools' = [pools EXCEPT ![gp] = a.pool]
                          /\ loc' = [loc EXCEPT
                                       ![c].receipt = a.receipt,
                                       ![c].result = a.result,
                                       ![c].header = Some([header EXCEPT !.GasUsed = a.usedGas])]
                          /\ Goto(c, "process")
    /\ UNCHANGED <<blocks, args, ctx>>

\* line 169
AppendResult_Prepend(results, jsonResult) == <<jsonResult>> \o results

AppendResult(results, jsonResult) == Append(results, jsonResult)

\* line 167
WriteBundleHash_Commutative(bundleHash, tx) ==
    IF bundleHash = <<>> THEN tx.hash
    ELSE [k \in 1..Len(tx.hash) |-> (bundleHash[k] + tx.hash[k]) % 256]

WriteBundleHash(bundleHash, tx) == HashWrite(bundleHash, tx.hash)

\* line 158
AddGasUsed_Overwrite(totalGasUsed, receipt) == receipt.GasUsed

AddGasUsed(totalGasUsed, receipt) == Uint64(totalGasUsed + receipt.GasUsed)

\* lines 165-166
AddGasFees_DeclaredGas(gasFees, tx, receipt, gasPrice) == gasFees + tx.gas * gasPrice

AddGasFees(gasFees, tx, receipt, gasPrice) == gasFees + GasFeesTx(receipt, gasPrice)

\* lines 157-169
CallBundle_Process(c) ==
    /\ pc[c] = "process"
    /\ LET tx == CurrentTx(c)
           header == Val(loc[c].header)
           receipt == Val(loc[c].receipt)
           p == processTransactionResult(tx, receipt, Val(loc[c].result), header,
                    loc[c].coinbaseBalanceBeforeTx, heap[Val(loc[c].state)])
           tip == EffectiveGasTip(tx, header.BaseFee)
           total == AddGasUsed(loc[c].totalGasUsed, receipt)
       IN  IF p.panic
           THEN /\ Panic(c)
                /\ UNCHANGED loc
           ELSE IF ~IsNil(tip.err)
           THEN /\ Returned(c, Nil, Some(WrapTxHash(Val(tip.err), tx)))
                /\ loc' = [loc EXCEPT ![c].totalGasUsed = total]
           ELSE /\ loc' = [loc EXCEPT
                             ![c].totalGasUsed = total,
                             ![c].gasFees = AddGasFees(@, tx, receipt, tip.tip),
                             ![c].bundleHash = WriteBundleHash(@, tx),
                             ![c].results = AppendResult(@, p.json),
                             ![c].i = @ + 1]
                /\ Goto(c, "check")
    /\ UNCHANGED <<blocks, heap, pools, args, ctx, engine>>

\* line 172
CallBundle_Finish(c) ==
    /\ pc[c] = "finish"
    /\ LET f == prepareFinalResult(loc[c].results, heap[Val(loc[c].state)],
                    loc[c].coinbaseBalanceBefore, Val(loc[c].coinbase), loc[c].gasFees,
                    loc[c].totalGasUsed, Val(loc[c].parent), loc[c].bundleHash)
       IN  IF f.panic THEN Panic(c) ELSE Returned(c, Some(f.ret), Nil)
    /\ UNCHANGED <<blocks, heap, pools, args, ctx, loc, engine>>

-----------------------------------------------------------------------------
(* The environment of a call: its caller and its deadline timer *)

\* the caller cancels the context it passed
CallerCancels(c) ==
    /\ Running(c)
    /\ IsNil(ctx[c].err)
    /\ ctx' = [ctx EXCEPT ![c].err = Some(Error("context canceled"))]
    /\ UNCHANGED <<blocks, heap, pools, args, pc, loc, ret, engine>>

\* the deadline of context.WithTimeout passes
DeadlineFires(c) ==
    /\ Running(c)
    /\ IsNil(ctx[c].err)
    /\ ~IsNil(ctx[c].deadline)
    /\ ctx' = [ctx EXCEPT ![c].err = Some(Error("context deadline exceeded"))]
    /\ UNCHANGED <<blocks, heap, pools, args, pc, loc, ret, engine>>

-----------------------------------------------------------------------------
(* PublicFilterAPI.simulateTx (gossip/filters/simulate.go), step by step *)

\* Backend.GetTransaction: the transaction of that hash, if the node knows one;
\* else no transaction, with an error or without
GetTransaction(txHash) ==
    LET known == {id \in DOMAIN Transactions : Transactions[id].hash = txHash}
    IN  IF known = {}
        THEN {[tx |-> Nil, err |-> Some(Error("transaction not found"))],
              [tx |-> Nil, err |-> Nil]}
        ELSE {[tx |-> Some(Transactions[id]), err |-> Nil] : id \in known}

\* lines 37-48: the current head, copied
simulateTx_Head(c) ==
    /\ pc[c] = "sim_head"
    /\ loc' = [loc EXCEPT ![c].parent = Some(CurrentBlock)]
    /\ Goto(c, "sim_gettx")
    /\ UNCHANGED <<blocks, heap, pools, args, ctx, engine>>

\* lines 50-53
simulateTx_GetTransaction(c) ==
    /\ pc[c] = "sim_gettx"
    /\ \E o \in GetTransaction(args[c].TxHash) :
          IF ~IsNil(o.err)
          THEN /\ Returned(c, Nil, o.err)
               /\ UNCHANGED loc
          ELSE /\ loc' = [loc EXCEPT ![c].tx = o.tx]
               /\ Goto(c, "sim_pool")
    /\ UNCHANGED <<blocks, heap, pools, args, ctx, engine>>

\* lines 38-48, 55-62: the synthetic header on top of the head
SimHeader_SameNumber(parent) ==
    [ParentHash |-> parent.Hash,
     Number |-> parent.Number,
     GasLimit |-> parent.GasLimit,
     Time |-> Uint64(parent.Time + 1),
     Coinbase |-> parent.Coinbase,
     BaseFee |-> IF IsLondon(parent.Number) THEN Some(CalcBaseFee(parent)) ELSE Nil,
     GasUsed |-> 0]

SimHeader(parent) ==
    LET blockNumber == parent.Number + 1
    IN  [ParentHash |-> parent.Hash,
         Number |-> blockNumber,
         GasLimit |-> parent.GasLimit,
         Time |-> Uint64(parent.Time + 1),
         Coinbase |-> parent.Coinbase,
         BaseFee |-> IF IsLondon(blockNumber) THEN Some(CalcBaseFee(parent)) ELSE Nil,
         GasUsed |-> 0]

\* lines 55-64: tx.Gas() dereferences tx, a nil pointer when none was found
simulateTx_GasPool(c) ==
    /\ pc[c] = "sim_pool"
    /\ IF IsNil(loc[c].tx)
       THEN /\ Panic(c)
            /\ UNCHANGED <<pools, loc>>
       ELSE LET gasPool == NewGasPool(c)
            IN  /\ pools' = (gasPool :> Val(loc[c].tx).gas) @@ pools
                /\ loc' = [loc EXCEPT
                             ![c].header = Some(SimHeader(Val(loc[c].parent))),
                             ![c].gp = Some(gasPool)]
                /\ Goto(c, "sim_state")
    /\ UNCHANGED <<blocks, heap, args, ctx, engine>>

\* lines 65-68
simulateTx_State(c) ==
    /\ pc[c] = "sim_state"
    /\ \E o \in StateAndHeaderByNumberOrHash(c, ByNumber(Val(loc[c].parent).Number)) :
          IF ~IsNil(o.err)
          THEN /\ Returned(c, Nil, o.err)
               /\ UNCHANGED <<heap, loc>>
          ELSE /\ heap' = IF IsNil(o.state) THEN heap
                          ELSE (Val(o.state) :> heap[BlockState(Val(o.parent).Number)]) @@ heap
               /\ loc' = [loc EXCEPT ![c].state = o.state]
               /\ Goto(c, "sim_evm")
    /\ UNCHANGED <<blocks, pools, args, ctx, engine>>

\* lines 69-73: state.SetTxContext dereferences state
simulateTx_GetEVM(c) ==
    /\ pc[c] = "sim_evm"
    /\ IF IsNil(loc[c].state)
       THEN /\ Panic(c)
            /\ UNCHANGED <<heap, engine>>
       ELSE LET tx == Val(loc[c].tx)
                sid == Val(loc[c].state)
            IN  /\ heap' = [heap EXCEPT ![sid] = SetTxContext(heap[sid], tx.hash, 0)]
                /\ engine' = [engine EXCEPT ![c].started = Append(@, 0)]
                /\ \E r \in tx.runs :
                      IF IsNil(GetEVM(tx, r))
                      THEN Goto(c, "sim_apply")
                      ELSE Returned(c, Nil, GetEVM(tx, r))
    /\ UNCHANGED <<blocks, pools, args, ctx, loc>>

\* lines 74-81
simulateTx_Apply(c) ==
    /\ pc[c] = "sim_apply"
    /\ LET tx == Val(loc[c].tx)
           sid == Val(loc[c].state)
           gp == Val(loc[c].gp)
           header == Val(loc[c].header)
       IN  \E r \in {x \in tx.runs : IsNil(GetEVM(tx, x))} :
              LET a == ApplyTransactionWithResult(tx, r, pools[gp], heap[sid], header)
              IN  IF ~IsNil(a.err)
                  THEN /\ Returned(c, Nil, a.err)
                       /\ engine' = [engine EXCEPT
                                       ![c].applied = Append(@, 0),
                                       ![c].pre = Append(@, heap[sid]),
                                       ![c].prePool = Append(@, pools[gp])]
                       /\ UNCHANGED <<heap, pools, loc>>
                  ELSE /\ engine' = [engine EXCEPT
                                       ![c].applied = Append(@, 0),
                                       ![c].pre = Append(@, heap[sid]),
                                       ![c].prePool = Append(@, pools[gp]),
                                       ![c].vmErrs = Append(@, Val(a.result).Err),
                                       ![c].post = Append(@, a.state),
                                       ![c].postPool = Append(@, a.pool)]
                       /\ heap' = [heap EXCEPT ![sid] = a.state]
                       /\ pools' = [pools EXCEPT ![gp] = a.pool]
                       /\ loc' = [loc EXCEPT
                                    ![c].receipt = a.receipt,
                                    ![c].result = a.result,
                                    ![c].header = Some([header EXCEPT !.GasUsed = a.usedGas])]
                       /\ Returned(c, Some(Val(a.receipt).Logs), Nil)
    /\ UNCHANGED <<blocks, args, ctx>>

-----------------------------------------------------------------------------
(* The live chain path: a new block on top of the head, its state the head's with
   the block's coinbase rewarded *)

ProduceBlock ==
    /\ HeadNumber < MaxHead
    /\ LET h == NextHeader(CurrentBlock)
       IN  /\ blocks' = Append(blocks, h)
           /\ heap' = (BlockState(h.Number) :>
                          AddBalance(heap[BlockState(HeadNumber)], h.Coinbase, 1)) @@ heap
    /\ UNCHANGED <<pools, args, pc, ctx, loc, ret, engine>>

-----------------------------------------------------------------------------
(* Requests *)

Request(txs, blockNumber, ref, o) ==
    [Txs |-> txs, BlockNumber |-> blockNumber, StateBlockNumberOrHash |-> ref,
     Coinbase |-> o.Coinbase, Timestamp |-> o.Timestamp, Timeout |-> o.Timeout,
     GasLimit |-> o.GasLimit, BaseFee |-> o.BaseFee]

NoOverrides ==
    [Coinbase |-> Nil, Timestamp |-> Nil, Timeout |-> Nil, GasLimit |-> Nil, BaseFee |-> Nil]

Overrides ==
    { NoOverrides,
      [NoOverrides EXCEPT !.Coinbase = Some(GoodCoinbase)],
      [NoOverrides EXCEPT !.Coinbase = Some(BadCoinbaseA)],
      [NoOverrides EXCEPT !.Coinbase = Some(BadCoinbaseB)],
      [NoOverrides EXCEPT !.Timestamp = Some(0), !.GasLimit = Some(3)],
      [NoOverrides EXCEPT !.BaseFee = Some(2)],
      [NoOverrides EXCEPT !.Timeout = Some(0)],
      [NoOverrides EXCEPT !.Timeout = Some(100), !.Timestamp = Some(12)] }

\* target block number and state reference
Targets ==
    { <<1, ByNumber(0)>>, <<2, Latest>>, <<-1, ByNumber(0)>>, <<0, ByNumber(0)>>,
      <<1, ByNumber(MaxHead + 1)>>, <<3, ByNumber(0)>> }

Bundles == UNION {[1..n -> Encodings] : n \in 0..MaxTxs}

Requests ==
    {Request(txs, t[1], t[2], o) : txs \in Bundles, t \in Targets, o \in Overrides}

\* a request of simulateTx: the hash of the transaction
SimRequest(txHash) == [TxHash |-> txHash]

IsBundleCall(a) == "Txs" \in DOMAIN a

NoLocals ==
    [txs |-> <<>>, state |-> Nil, parent |-> Nil, header |-> Nil, coinbase |-> Nil,
     gp |-> Nil, results |-> <<>>, coinbaseBalanceBefore |-> 0,
     coinbaseBalanceBeforeTx |-> 0, i |-> 0, totalGasUsed |-> 0, gasFees |-> 0,
     bundleHash |-> <<>>, receipt |-> Nil, result |-> Nil, tx |-> Nil]

InitCalls(Calls, Reqs) ==
    /\ blocks = <<GenesisHeader>>
    /\ heap = (BlockState(0) :> GenesisState)
    /\ pools = <<>>
    /\ args \in [Calls -> Reqs]
    /\ pc = [c \in Calls |-> IF IsBundleCall(args[c]) THEN "validate" ELSE "sim_head"]
    /\ ctx = [c \in Calls |-> [err |-> Nil, deadline |-> Nil]]
    /\ loc = [c \in Calls |-> NoLocals]
    /\ ret = [c \in Calls |-> [result |-> Nil, err |-> Nil]]
    /\ engine = [c \in Calls |->
                    [started |-> <<>>, applied |-> <<>>, pre |-> <<>>, prePool |-> <<>>,
                     vmErrs |-> <<>>, post |-> <<>>, postPool |-> <<>>]]

Calls == DOMAIN pc

-----------------------------------------------------------------------------
(* One call of CallBundle, with its caller and its deadline *)

Init == InitCalls({1}, Requests)

Next ==
    \/ \E c \in Calls : CallBundle_Validate(c)
    \/ \E c \in Calls : CallBundle_Decode(c)
    \/ \E c \in Calls : CallBundle_Context(c)
    \/ \E c \in Calls : CallBundle_Acquire(c)
    \/ \E c \in Calls : CallBundle_Header(c)
    \/ \E c \in Calls : CallBundle_Check(c)
    \/ \E c \in Calls : CallBundle_Begin(c)
    \/ \E c \in Calls : CallBundle_Apply(c)
    \/ \E c \in Calls : CallBundle_Process(c)
    \/ \E c \in Calls : CallBundle_Finish(c)
    \/ \E c \in Calls : CallerCancels(c)
    \/ \E c \in Calls : DeadlineFires(c)

Spec == Init /\ [][Next]_vars


-----------------------------------------------------------------------------
(* Two concurrent calls, CallBundle or simulateTx, beside the live chain path *)

ConcRequests ==
    {Request(txs, 1, ref, NoOverrides) :
        txs \in {<<"ta">>, <<"tb", "ta">>}, ref \in {ByNumber(0), Latest}}

SimRequests == {SimRequest(Transactions.ta.hash), SimRequest(<<9, 9>>)}

InitConc ==
    /\ InitCalls({1, 2}, ConcRequests \cup SimRequests)
    /\ IsBundleCall(args[1])

NextConc ==
    \/ \E c \in Calls : CallBundle_Validate(c)
    \/ \E c \in Calls : CallBundle_Decode(c)
    \/ \E c \in Calls : CallBundle_Context(c)
    \/ \E c \in Calls : CallBundle_Acquire(c)
    \/ \E c \in Calls : CallBundle_Header(c)
    \/ \E c \in Calls : CallBundle_Check(c)
    \/ \E c \in Calls : CallBundle_Begin(c)
    \/ \E c \in Calls : CallBundle_Apply(c)
    \/ \E c \in Calls : CallBundle_Process(c)
    \/ \E c \in Calls : CallBundle_Finish(c)
    \/ \E c \in Calls : simulateTx_Head(c)
    \/ \E c \in Calls : simulateTx_GetTransaction(c)
    \/ \E c \in Calls : simulateTx_GasPool(c)
    \/ \E c \in Calls : simulateTx_State(c)
    \/ \E c \in Calls : simulateTx_GetEVM(c)
    \/ \E c \in Calls : simulateTx_Apply(c)
    \/ \E c \in Calls : CallerCancels(c)
    \/ ProduceBlock

SpecConc == InitConc /\ [][NextConc]_vars

-----------------------------------------------------------------------------
(* One call of CallBundle over the timeouts a request can carry, those included
   whose product with time.Millisecond leaves the range of a time.Duration *)

\* a timeout so long that the duration wraps to a negative one
LongTimeout == (2^(DurationBits - 1) \div Millisecond) + 1
\* a negative timeout whose duration wraps to a positive one
NegativeTimeout == -(2^DurationBits \div Millisecond)

Timeouts == {Nil, Some(0), Some(-1), Some(100), Some(LongTimeout), Some(NegativeTimeout)}

TimeoutRequests ==
    {Request(txs, 1, ByNumber(0), [NoOverrides EXCEPT !.Timeout = t]) :
        txs \in {<<"ta">>, <<"tb", "ta">>}, t \in Timeouts}

InitTimeout == InitCalls({1}, TimeoutRequests)

SpecTimeout == InitTimeout /\ [][Next]_vars

-----------------------------------------------------------------------------
(* One call of CallBundle over bundles whose declared gas limits reach the
   capacity of the gas pool *)

GasBundles == UNION {[1..n -> {"ta", "tg"}] : n \in 1..MaxTxs}

GasRequests == {Request(txs, 1, ByNumber(0), NoOverrides) : txs \in GasBundles}

InitGas == InitCalls({1}, GasRequests)

SpecGas == InitGas /\ [][Next]_vars

-----------------------------------------------------------------------------
(* Two concurrent calls of simulateTx beside the live chain path *)

SimHashes ==
    {Transactions.ta.hash, Transactions.tb.hash, Transactions.te.hash, <<9, 9>>}

InitSim == InitCalls({1, 2}, {SimRequest(h) : h \in SimHashes})

NextSim ==
    \/ \E c \in Calls : simulateTx_Head(c)
    \/ \E c \in Calls : simulateTx_GetTransaction(c)
    \/ \E c \in Calls : simulateTx_GasPool(c)
    \/ \E c \in Calls : simulateTx_State(c)
    \/ \E c \in Calls : simulateTx_GetEVM(c)
    \/ \E c \in Calls : simulateTx_Apply(c)
    \/ \E c \in Calls : CallerCancels(c)
    \/ ProduceBlock

SpecSim == InitSim /\ [][NextSim]_vars

-----------------------------------------------------------------------------
(* One call of CallBundle over the combinations of header overrides and the
   parents the chain offers while the live chain path advances *)

HeaderOverrides ==
    {[Coinbase |-> cb, Timestamp |-> ts, Timeout |-> Nil, GasLimit |-> gl, BaseFee |-> bf] :
        cb \in {Nil, Some(GoodCoinbase), Some(BadCoinbaseA)},
        ts \in {Nil, Some(12)},
        gl \in {Nil, Some(3)},
        bf \in {Nil, Some(2)}}

HeaderTargets ==
    { <<1, ByNumber(0)>>, <<2, Latest>>, <<3, ByNumber(1)>>, <<1, ByNumber(1)>> }

HeaderRequests ==
    {Request(<<"ta">>, t[1], t[2], o) : t \in HeaderTargets, o \in HeaderOverrides}

InitHeader == InitCalls({1}, HeaderRequests)

NextHeaderSpec ==
    \/ \E c \in Calls : CallBundle_Validate(c)
    \/ \E c \in Calls : CallBundle_Decode(c)
    \/ \E c \in Calls : CallBundle_Context(c)
    \/ \E c \in Calls : CallBundle_Acquire(c)
    \/ \E c \in Calls : CallBundle_Header(c)
    \/ \E c \in Calls : CallBundle_Check(c)
    \/ \E c \in Calls : CallBundle_Begin(c)
    \/ \E c \in Calls : CallBundle_Apply(c)
    \/ \E c \in Calls : CallBundle_Process(c)
    \/ \E c \in Calls : CallBundle_Finish(c)
    \/ \E c \in Calls : CallerCancels(c)
    \/ \E c \in Calls : DeadlineFires(c)
    \/ ProduceBlock

SpecHeader == InitHeader /\ [][NextHeaderSpec]_vars

-----------------------------------------------------------------------------
(* Properties *)

HasResult(c) == pc[c] = "returned" /\ ~IsNil(ret[c].result)
HasError(c) == pc[c] = "returned" /\ ~IsNil(ret[c].err)

RECURSIVE SumGasUsed(_)
SumGasUsed(entries) ==
    IF entries = <<>> THEN 0 ELSE entries[1].gasUsed + SumGasUsed(Tail(entries))

\* C1: every call of CallBundle that returns, returns either a result and no error
\* or an error and no result, never neither (and never both).
C1_ResultOrError ==
    \A c \in Calls :
        pc[c] = "returned" => (IsNil(ret[c].result) /= IsNil(ret[c].err))

\* C2: no call of CallBundle crashes on a division by zero, whatever gas the
\* receipts of its transactions report.
C2_NoDivisionByZero ==
    \A c \in Calls : pc[c] /= "panicked"

\* C3: a returned result has one entry per transaction of the request, entry k
\* describing transaction k, and totalGasUsed is the sum of the entries' gasUsed.
C3_ResultsMatchBundle ==
    \A c \in Calls :
        HasResult(c) =>
            LET r == Val(ret[c].result)
            IN  /\ Len(r.results) = Len(args[c].Txs)
                /\ \A k \in 1..Len(r.results) :
                      r.results[k].txHash = HashString(Transactions[args[c].Txs[k]].hash)
                /\ r.totalGasUsed = SumGasUsed(r.results)

C3_Witness ==
    \E c \in Calls :
        /\ HasResult(c)
        /\ Len(Val(ret[c].result).results) >= 2
        /\ Val(ret[c].result).results[1].txHash /= Val(ret[c].result).results[2].txHash
        /\ Val(ret[c].result).totalGasUsed >= 3

VMErrors == {"reverted", "outofgas"}

\* C4: an in-VM failure is never the error of the call; every transaction applied,
\* failed in the VM or not, gets its entry before the next one starts; the entry of
\* a transaction that failed in the VM carries error and no value, the entry of one
\* that succeeded carries value and no error.
C4_VMFailureRecorded ==
    \A c \in Calls :
        /\ HasError(c) => Val(ret[c].err).kind \notin VMErrors
        /\ pc[c] = "check" => Len(loc[c].results) = Len(engine[c].vmErrs)
        /\ HasResult(c) =>
              LET entries == Val(ret[c].result).results
              IN  /\ Len(entries) = Len(engine[c].vmErrs)
                  /\ \A k \in 1..Len(entries) :
                        /\ entries[k].error = engine[c].vmErrs[k]
                        /\ IsNil(entries[k].error) /= IsNil(entries[k].value)

C4_Witness ==
    \E c \in Calls :
        /\ HasResult(c)
        /\ Len(Val(ret[c].result).results) = 2
        /\ Val(ret[c].result).results[1].error = Some("reverted")
        /\ ~IsNil(Val(ret[c].result).results[1].revert)
        /\ IsNil(Val(ret[c].result).results[1].value)
        /\ ~IsNil(Val(ret[c].result).results[2].value)

EngineErrors ==
    {Val(GetEVM(Transactions.te, Run("msgerr", 0, 0, <<>>))).kind,
     Val(GetEVM(Transactions.te, Run("evmerr", 0, 0, <<>>))).kind,
     "nonce too low", "gas limit reached"}

\* C5: a call that ends on a failure of message construction or of the engine
\* invocation for transaction i returns no result and an error annotated with the
\* hash of transaction i, and has started no transaction after i.
C5_AbortAnnotated ==
    \A c \in Calls :
        (HasError(c) /\ Val(ret[c].err).kind \in EngineErrors) =>
            /\ IsNil(ret[c].result)
            /\ Val(ret[c].err).txhash = Some(HashString(CurrentTx(c).hash))
            /\ engine[c].started = [k \in 1..(loc[c].i + 1) |-> k - 1]

\* C7: a request with no transactions or with a target block number not above 0
\* is rejected in the request checks: it never gets past them, it returns an error,
\* no state view is acquired and no transaction is started.
C7_InvalidRejected ==
    \A c \in Calls :
        (Len(args[c].Txs) = 0 \/ args[c].BlockNumber <= 0) =>
            /\ pc[c] \in {"validate", "returned"}
            /\ pc[c] = "returned" => (IsNil(ret[c].result) /\ ~IsNil(ret[c].err))
            /\ IsNil(loc[c].state)
            /\ engine[c].started = <<>>

\* C6 as claimed: a call whose deadline fired or whose caller cancelled before it
\* returned, returns no result (it returns the cancellation error).
C6_CancelledReturnsNoResult ==
    \A c \in Calls :
        (pc[c] = "returned" /\ ~IsNil(ctx[c].err)) => IsNil(ret[c].result)

\* C6, amended: the context is checked once before each transaction and nowhere
\* else. A check before transaction i that finds the context done ends the call
\* with the cancellation error and no result, without touching the engine; a
\* transaction is started only from the step that follows a check, and that step
\* is entered only by a check that found the context not done.
C6_CheckedBeforeEachTx ==
    [][\A c \in Calls :
          /\ (/\ pc[c] = "check" /\ pc'[c] /= "check"
              /\ loc[c].i < Len(loc[c].txs) /\ ~IsNil(ctx[c].err))
             => /\ pc'[c] = "returned"
                /\ ret'[c] = [result |-> Nil, err |-> ctx[c].err]
                /\ engine'[c] = engine[c]
          /\ engine'[c].started /= engine[c].started => pc[c] = "begin"
          /\ (pc'[c] = "begin" /\ pc[c] /= "begin")
             => (pc[c] = "check" /\ IsNil(ctx[c].err))]_vars

C6_Witness ==
    \E c \in Calls :
        /\ pc[c] = "returned"
        /\ ~IsNil(ctx[c].err)
        /\ ret[c] = [result |-> Nil, err |-> ctx[c].err]
        /\ Len(loc[c].txs) = 2
        /\ engine[c].started = <<0>>
        /\ engine[c].applied = <<0>>
        /\ Len(loc[c].results) = 1

Malformed(c) == ~IsNil(args[c].Coinbase) /\ ~IsHexAddress(Val(args[c].Coinbase))

\* C8: with a malformed coinbase override no synthetic header is ever built and no
\* transaction is ever started.
C8_MalformedFailsFast ==
    \A c \in Calls :
        Malformed(c) => (IsNil(loc[c].header) /\ engine[c].started = <<>>)

\* what a call owns: its locals, returned values and engine log, and the contents
\* of the state view and of the gas pool it holds
Own(d) ==
    [pc |-> pc[d], loc |-> loc[d], ret |-> ret[d], engine |-> engine[d],
     view |-> IF IsNil(loc[d].state) THEN Nil ELSE Some(heap[Val(loc[d].state)]),
     pool |-> IF IsNil(loc[d].gp) THEN Nil ELSE Some(pools[Val(loc[d].gp)])]

\* the persistent chain state is as it was: every block's header and state
PersistentUnchanged ==
    /\ \A n \in 1..Len(blocks) : blocks'[n] = blocks[n]
    /\ \A n \in 0..HeadNumber : heap'[BlockState(n)] = heap[BlockState(n)]

\* C9: a step of one call (CallBundle or simulateTx, succeeding, aborting or
\* cancelled) changes nothing another call owns and nothing of the persistent chain
\* state, so a later stateAt of the same block sees the same state; a step of the
\* live chain path changes nothing a call owns and no state of an existing block.
C9_Isolation ==
    [][/\ \A c \in Calls :
             pc'[c] /= pc[c] =>
                /\ blocks' = blocks
                /\ PersistentUnchanged
                /\ \A d \in Calls \ {c} : Own(d)' = Own(d)
       /\ blocks' /= blocks =>
             /\ PersistentUnchanged
             /\ \A d \in Calls : Own(d)' = Own(d)]_vars

C9_Witness ==
    /\ HasResult(1)
    /\ HasResult(2)
    /\ ~IsBundleCall(args[2])
    /\ HeadNumber >= 1
    /\ loc[1].state /= loc[2].state
    /\ loc[1].gp /= loc[2].gp
    /\ Val(loc[1].parent).Number = 0
    /\ Val(loc[2].parent).Number = 0
    /\ heap[Val(loc[1].state)].balance /= heap[BlockState(0)].balance
    /\ heap[Val(loc[2].state)].balance /= heap[BlockState(0)].balance
    /\ heap[BlockState(0)] = GenesisState

\* the digest of the hashes of a bundle, written in order
RECURSIVE BundleDigest(_)
BundleDigest(encs) ==
    IF encs = <<>> THEN NewLegacyKeccak256
    ELSE HashWrite(BundleDigest(SubSeq(encs, 1, Len(encs) - 1)),
                   Transactions[encs[Len(encs)]].hash)

HashesOf(encs) == [k \in 1..Len(encs) |-> Transactions[encs[k]].hash]

IsReordering(a, b) ==
    /\ Len(a) = Len(b)
    /\ a /= b
    /\ \A k, l \in 1..Len(a) : k /= l => a[k] /= a[l]
    /\ {a[k] : k \in 1..Len(a)} = {b[k] : k \in 1..Len(b)}

\* C10: the bundleHash of a returned result is the digest of the hashes of the
\* request's transactions in order, whatever the state reference, the overrides and
\* the outcomes of execution; and it differs from the digest of every reordering
\* of these transactions, when they are distinct.
C10_BundleHash ==
    \A c \in Calls :
        HasResult(c) =>
            /\ Val(ret[c].result).bundleHash =
                  <<"0", "x">> \o HexEncode(HashSum(BundleDigest(args[c].Txs)))
            /\ \A b \in Bundles :
                  (/\ \A k \in 1..Len(b) : b[k] \in DOMAIN Transactions
                   /\ IsReordering(HashesOf(b), HashesOf(args[c].Txs)))
                  => Val(ret[c].result).bundleHash /=
                        <<"0", "x">> \o HexEncode(HashSum(BundleDigest(b)))

C10_Witness ==
    \E c \in Calls :
        /\ HasResult(c)
        /\ args[c].Txs = <<"tb", "ta">>
        /\ ~IsNil(args[c].BaseFee) \/ ~IsNil(args[c].Coinbase)
        /\ Val(ret[c].result).results[1].error = Some("outofgas")

\* the integer a decimal string denotes (the inverse of big.Int.String)
DigitVal(ch) == (CHOOSE k \in 1..10 : DigitChars[k] = ch) - 1

RECURSIVE ParseDigits(_)
ParseDigits(str) ==
    IF str = <<>> THEN 0
    ELSE 10 * ParseDigits(SubSeq(str, 1, Len(str) - 1)) + DigitVal(str[Len(str)])

ParseBig(str) == IF str[1] = "-" THEN -ParseDigits(Tail(str)) ELSE ParseDigits(str)

RECURSIVE SumSeq(_)
SumSeq(xs) == IF xs = <<>> THEN 0 ELSE xs[1] + SumSeq(Tail(xs))

\* the transaction at position k (from 1) of the request of call c, and its
\* effective gas tip under the call's synthetic header
TxAt(c, k) == Transactions[args[c].Txs[k]]
TipAt(c, k) == EffectiveGasTip(TxAt(c, k), Val(loc[c].header).BaseFee).tip

\* what application k of call c added to the coinbase balance, by the engine's log
CoinbaseGain(c, k) ==
    GetBalance(engine[c].post[k], Val(loc[c].coinbase))
        - GetBalance(engine[c].pre[k], Val(loc[c].coinbase))

\* C11: in a returned result the gasFees of every entry is its gas used times the
\* effective gas tip of its transaction and the aggregate gasFees is their sum;
\* ethSentToCoinbase is coinbaseDiff minus gasFees, in every entry and in the
\* aggregate; and when every application raised the coinbase balance by exactly
\* its gas fee, ethSentToCoinbase is "0" in every entry and in the aggregate.
C11_EthSentToCoinbase ==
    \A c \in Calls :
        HasResult(c) =>
            LET r == Val(ret[c].result)
                N == Len(r.results)
                fee(k) == r.results[k].gasUsed * TipAt(c, k)
            IN  /\ \A k \in 1..N :
                      /\ r.results[k].gasFees = BigString(fee(k))
                      /\ ParseBig(r.results[k].ethSentToCoinbase) =
                            ParseBig(r.results[k].coinbaseDiff) - ParseBig(r.results[k].gasFees)
                /\ ParseBig(r.gasFees) = SumSeq([k \in 1..N |-> fee(k)])
                /\ ParseBig(r.ethSentToCoinbase) = ParseBig(r.coinbaseDiff) - ParseBig(r.gasFees)
                /\ (\A k \in 1..N : CoinbaseGain(c, k) = fee(k))
                   => /\ \A k \in 1..N : r.results[k].ethSentToCoinbase = <<"0">>
                      /\ r.ethSentToCoinbase = <<"0">>

C11_Witness ==
    \E c \in Calls :
        /\ HasResult(c)
        /\ Len(Val(ret[c].result).results) = 2
        /\ \A k \in 1..2 :
              /\ CoinbaseGain(c, k) > 0
              /\ Val(ret[c].result).results[k].coinbaseDiff = Val(ret[c].result).results[k].gasFees
              /\ Val(ret[c].result).results[k].ethSentToCoinbase = <<"0">>
        /\ Val(ret[c].result).gasFees = <<"4">>
        /\ Val(ret[c].result).ethSentToCoinbase = <<"0">>

\* the steps of CallBundle that follow the derivation of the context
AfterContext == {"acquire", "header", "check", "begin", "apply", "process", "finish"}

\* C12: from state acquisition on, the deadline of the call is 5000 ms when the
\* request carries no timeout, the timeout in milliseconds when it is positive,
\* and none when it is not positive; and a call whose timeout is not positive is
\* never ended by the deadline.
C12_DeadlineRule ==
    \A c \in Calls :
        LET t == args[c].Timeout
        IN  /\ pc[c] \in AfterContext =>
                 /\ IsNil(t) => ctx[c].deadline = Some(DefaultTimeoutMs * Millisecond)
                 /\ (~IsNil(t) /\ Val(t) > 0) => ctx[c].deadline = Some(Val(t) * Millisecond)
                 /\ (~IsNil(t) /\ Val(t) <= 0) => IsNil(ctx[c].deadline)
            /\ (~IsNil(t) /\ Val(t) <= 0) =>
                 ctx[c].err /= Some(Error("context deadline exceeded"))

\* the sum of the gas limits the transactions of call c declare
DeclaredGas(c) == SumSeq([k \in 1..Len(loc[c].txs) |-> loc[c].txs[k].gas])

\* C13: the gas pool of a call never goes negative, and a call whose gas pool
\* capacity is smaller than the sum of the gas limits its transactions declare
\* returns no result: one of its transactions fails at the engine invocation and
\* the call aborts.
C13_PoolCoversDeclared ==
    \A c \in Calls :
        /\ ~IsNil(loc[c].gp) => pools[Val(loc[c].gp)] \in 0..MaxUint64
        /\ MaxUint64 < DeclaredGas(c) =>
              /\ ~HasResult(c)
              /\ pc[c] /= "finish"

\* the transactions the node knows under the hash a simulateTx call asks for
KnownTxs(c) == {id \in DOMAIN Transactions : Transactions[id].hash = args[c].TxHash}

\* C14: simulateTx copies the head of the chain as it stands when the call reads
\* it; a call that returns logs has applied exactly one transaction, the one asked
\* for, once, to a view of the state of that head, with a gas pool holding exactly
\* the transaction's declared gas limit, under a header numbered head + 1 whose
\* parent hash is the head's hash; and what it returns is the log sequence of the
\* receipt, with no error, also when that sequence is empty.
C14_SimulateTx ==
    /\ [](\A c \in Calls :
            (~IsBundleCall(args[c]) /\ pc[c] = "returned" /\ IsNil(ret[c].err)) =>
                LET parent == Val(loc[c].parent)
                    header == Val(loc[c].header)
                    tx == Val(loc[c].tx)
                IN  /\ \E id \in KnownTxs(c) : tx = Transactions[id]
                    /\ engine[c].started = <<0>>
                    /\ engine[c].applied = <<0>>
                    /\ parent = blocks[parent.Number + 1]
                    /\ header.Number = parent.Number + 1
                    /\ header.ParentHash = parent.Hash
                    /\ engine[c].prePool = <<tx.gas>>
                    /\ engine[c].pre[1].balance = heap[BlockState(parent.Number)].balance
                    /\ engine[c].pre[1].thash = Some(tx.hash)
                    /\ engine[c].pre[1].txIndex = 0
                    /\ ~IsNil(ret[c].result)
                    /\ Val(ret[c].result) \in {r.logs : r \in tx.runs}
                    /\ Val(ret[c].result) = Val(loc[c].receipt).Logs)
    /\ [][\A c \in Calls :
            (pc[c] = "sim_head" /\ pc'[c] /= "sim_head")
                => loc'[c].parent = Some(blocks[Len(blocks)])]_vars

\* a preview of a transaction without events, on a head the chain has moved to
C14_Witness ==
    \E c \in Calls :
        /\ ~IsBundleCall(args[c])
        /\ pc[c] = "returned"
        /\ ret[c] = [result |-> Some(<<>>), err |-> Nil]
        /\ Val(loc[c].parent).Number = 1
        /\ Val(loc[c].header).Number = 2
        /\ engine[c].post[1].balance /= engine[c].pre[1].balance

\* C15: a simulateTx call for a transaction the node does not know never gets
\* past the lookup: it returns an error and no logs, acquires no state view and
\* starts no transaction.
C15_MissingTxFails ==
    \A c \in Calls :
        (~IsBundleCall(args[c]) /\ KnownTxs(c) = {}) =>
            /\ pc[c] \in {"sim_head", "sim_gettx", "returned"}
            /\ pc[c] = "returned" => (IsNil(ret[c].result) /\ ~IsNil(ret[c].err))
            /\ IsNil(loc[c].state)
            /\ engine[c].started = <<>>

\* the address a well-formed address string denotes: byte k is its k-th pair of
\* hex digits
DecodeAddress(str) ==
    LET t == IF has0xPrefix(str) THEN SubSeq(str, 3, Len(str)) ELSE str
    IN  [k \in 1..AddressLength |-> 16 * HexVal(t[2 * k - 1]) + HexVal(t[2 * k])]

C17_TimestampMonotonic ==
    \A c \in Calls :
        (IsBundleCall(args[c]) /\ ~IsNil(loc[c].header)) =>
            LET h == Val(loc[c].header)
                parent == Val(loc[c].parent)
            IN  /\ h.Time = IF IsNil(args[c].Timestamp) THEN parent.Time + 1
                            ELSE Val(args[c].Timestamp)
                /\ engine[c].started /= <<>> => h.Time >= parent.Time

\* the state of the block call c is anchored at
Anchored(c) == heap[BlockState(Val(loc[c].parent).Number)]

\* the state application k (from 1) of call c builds on: the anchored state for
\* the first, what the application before it left for the others
LeftBefore(c, k) == IF k = 1 THEN Anchored(c) ELSE engine[c].post[k - 1]

\* C18: by the engine's log, the applications of a call are those of transactions
\* 0, 1, 2, ... in order; application i is handed the state the application before
\* it left (the anchored state for the first), in-VM failures included, tagged
\* with the hash and the position i of its transaction, and the gas pool the
\* application before it left; the coinbase balance snapshotted before a
\* transaction is the balance the application before it left, and the coinbaseDiff
\* of an entry is measured from it.
C18_BundleSemantics ==
    \A c \in Calls :
        (IsBundleCall(args[c]) /\ ~IsNil(loc[c].header)) =>
            LET N == Len(engine[c].pre)
                cb == Val(loc[c].coinbase)
            IN  /\ engine[c].applied = [k \in 1..N |-> k - 1]
                /\ \A k \in 1..N :
                      /\ engine[c].pre[k].balance = LeftBefore(c, k).balance
                      /\ engine[c].pre[k].thash = Some(TxAt(c, k).hash)
                      /\ engine[c].pre[k].txIndex = k - 1
                      /\ engine[c].prePool[k] =
                            IF k = 1 THEN MaxUint64 ELSE engine[c].postPool[k - 1]
                /\ pc[c] \in {"apply", "process"} =>
                      loc[c].coinbaseBalanceBeforeTx =
                          GetBalance(LeftBefore(c, loc[c].i + 1), cb)
                /\ \A k \in 1..Len(loc[c].results) :
                      ParseBig(loc[c].results[k].coinbaseDiff) =
                          GetBalance(engine[c].post[k], cb) - GetBalance(LeftBefore(c, k), cb)

\* a second transaction applied on what a reverted first one left
C18_Witness ==
    \E c \in Calls :
        /\ HasResult(c)
        /\ Len(engine[c].post) = 2
        /\ engine[c].vmErrs[1] = Some("reverted")
        /\ engine[c].post[1].balance /= Anchored(c).balance
        /\ engine[c].pre[2].balance = engine[c].post[1].balance
        /\ engine[c].pre[2].txIndex = 1
        /\ engine[c].prePool[2] < MaxUint64

\* C19: in a returned result the aggregate coinbaseDiff, gasFees and
\* ethSentToCoinbase are the sums of the entries' coinbaseDiff, gasFees and
\* ethSentToCoinbase.
C19_AggregatesAreSums ==
    \A c \in Calls :
        HasResult(c) =>
            LET r == Val(ret[c].result)
                N == Len(r.results)
            IN  /\ ParseBig(r.coinbaseDiff) =
                      SumSeq([k \in 1..N |-> ParseBig(r.results[k].coinbaseDiff)])
                /\ ParseBig(r.gasFees) =
                      SumSeq([k \in 1..N |-> ParseBig(r.results[k].gasFees)])
                /\ ParseBig(r.ethSentToCoinbase) =
                      SumSeq([k \in 1..N |-> ParseBig(r.results[k].ethSentToCoinbase)])

\* a result whose entries differ in what they sent to the coinbase
C19_Witness ==
    \E c \in Calls :
        /\ HasResult(c)
        /\ Len(Val(ret[c].result).results) = 2
        /\ Val(ret[c].result).results[1].ethSentToCoinbase = <<"1">>
        /\ Val(ret[c].result).results[1].gasFees = <<"1">>
        /\ Val(ret[c].result).results[2].gasFees = <<"2">>
        /\ Val(ret[c].result).coinbaseDiff = <<"4">>
        /\ Val(ret[c].result).gasFees = <<"3">>
        /\ Val(ret[c].result).ethSentToCoinbase = <<"1">>

\* C20: at the head of every iteration of the loop and at its exit the header's
\* cumulative gas used and totalGasUsed are equal, and equal to the sum of the gas
\* used by the transactions applied so far (by the entries collected, and by what
\* the gas pool has been charged); both are 0 before the first transaction and
\* neither ever decreases.
C20_GasAccounting ==
    /\ [](\A c \in Calls :
            (IsBundleCall(args[c]) /\ pc[c] \in {"check", "finish"}) =>
                /\ Val(loc[c].header).GasUsed = loc[c].totalGasUsed
                /\ loc[c].totalGasUsed = SumGasUsed(loc[c].results)
                /\ loc[c].totalGasUsed = MaxUint64 - pools[Val(loc[c].gp)]
                /\ loc[c].i = 0 => loc[c].totalGasUsed = 0)
    /\ [][\A c \in Calls :
            (IsBundleCall(args[c]) /\ ~IsNil(loc[c].header)) =>
                /\ Val(loc'[c].header).GasUsed >= Val(loc[c].header).GasUsed
                /\ loc'[c].totalGasUsed >= loc[c].totalGasUsed]_vars

C20_Witness ==
    \E c \in Calls :
        /\ pc[c] = "finish"
        /\ Len(loc[c].results) = 2
        /\ loc[c].results[1].gasUsed = 1
        /\ loc[c].results[2].gasUsed = 2
        /\ loc[c].totalGasUsed = 3
        /\ Val(loc[c].header).GasUsed = 3

====
